---- MODULE Spec2Model ----
(***************************************************************************)
(* Model of src/app.py: the Streamlit page "Kroon Beheer Reservations".    *)
(*                                                                         *)
(*   load_and_process_data (lines 114-156): fetch the CSV at a fixed URL,  *)
(*   parse it, strip the column names, drop empty and sparse columns,      *)
(*   coerce detected date columns, split the columns into client and       *)
(*   reservation columns.  The function is wrapped in st.cache_data with   *)
(*   ttl=300.                                                              *)
(*                                                                         *)
(*   main (lines 274-714): one run of the page script per user             *)
(*   interaction: load, report an error or a warning and stop, otherwise   *)
(*   sidebar filters, tabs and the action buttons.                         *)
(*                                                                         *)
(* Library behaviour the model relies on (pandas / requests / streamlit):  *)
(*   - read_csv reads an empty field as NaN, a column whose non-empty      *)
(*     fields are all numeric as a numeric column, any other column as an  *)
(*     object column of strings; a line that is blank is skipped;          *)
(*   - DataFrame.dropna(axis=1, thresh=t) keeps a column iff its count of  *)
(*     non-missing cells is >= t;                                          *)
(*   - to_datetime parses cell by cell; errors='raise' raises on the first *)
(*     cell that does not parse, errors='coerce' yields NaT for it;        *)
(*   - st.cache_data stores whatever the wrapped function RETURNS, for ttl *)
(*     seconds, under a key made of the function and its arguments.        *)
(***************************************************************************)
EXTENDS Integers, Sequences, FiniteSets, TLC

VARIABLES
    source,               \* the CSV text the URL serves now: [header, rows]
    cache,                \* st.cache_data entry of load_and_process_data
    pc,                   \* position of the page script / of the load
    df,                   \* main's df (load's df while the load runs)
    date_columns,         \* main's date_columns
    client_columns,       \* main's client_columns
    reservation_columns,  \* main's reservation_columns
    error,                \* main's error
    raw,                  \* the frame as read_csv returned it (line 124)
    pre,                  \* the frame just before the date loop (line 136)
    again,                \* lines 126-147 applied to the returned df
    ui,                   \* what the current run has put on the page, in order
    fetched,              \* requests.get calls made by the current run
    widgets               \* widget inputs of the current run

vars == <<source, cache, pc, df, date_columns, client_columns,
          reservation_columns, error, raw, pre, again, ui, fetched, widgets>>

-----------------------------------------------------------------------------
(* Bounds of the model *)

\* most blocks of equal rows in a source of the load specification
MaxBlocks == 2

\* most rows of a source of the session specification
MaxSessionRows == 2

-----------------------------------------------------------------------------
(* Program constants *)

\* head(10): size of the date-detection sample
SampleSize == 10

\* threshold = len(df) * 0.1, written as a fraction ThreshNum / ThreshDen
ThreshNum == 1

ThreshDen == 10

\* st.cache_data(ttl=300)
TTL == 300

-----------------------------------------------------------------------------
(* Cells and frames *)

NaN == [t |-> "NaN", s |-> "", n |-> 0]

NaT == [t |-> "NaT", s |-> "", n |-> 0]

Str(x) == [t |-> "str", s |-> x, n |-> 0]

Num(k) == [t |-> "num", s |-> "", n |-> k]

Timestamp(d) == [t |-> "Timestamp", s |-> "", n |-> d]

\* pandas isna(): NaN and NaT are both missing
IsNa(c) == c.t \in {"NaN", "NaT"}

\* df is None
NoneDF == [len |-> -1, columns |-> <<>>]

\* error is None
NoneErr == [none |-> TRUE, msg |-> ""]

\* str(e)
ErrStr(m) == [none |-> FALSE, msg |-> m]

RECURSIVE Rep(_, _)
\* n copies of x
Rep(x, n) == IF n = 0 THEN <<>> ELSE <<x>> \o Rep(x, n - 1)

\* the values of a sequence
Range(s) == {s[i] : i \in 1..Len(s)}

\* Series.count(): the non-missing cells of a column
Count(col) == Len(SelectSeq(col.cells, LAMBDA c : ~IsNa(c)))

-----------------------------------------------------------------------------
(* Text conversions *)

\* str.strip() on the column names that occur
Strip(name) ==
    CASE name = " Client Since" -> "Client Since"
      [] name = "Year " -> "Year"
      [] name = " Date" -> "Date"
      [] name = "Date " -> "Date"
      [] OTHER -> name

\* str.lower() on the column names that occur
Lower(name) ==
    CASE name = "Client Since" -> "client since"
      [] name = "Client Date" -> "client date"
      [] name = "Year" -> "year"
      [] name = "Date" -> "date"
      [] name = "Unit" -> "unit"
      [] OTHER -> name

\* 'client' in s or 'profile' in s, for a lowercase name
HasClientOrProfile(s) == s \in {"client since", "client date", "client", "profile"}

\* the fields read_csv reads as a number, and the number read
IsNumeric(f) == f \in {"2024", "2025"}

ParseNum(f) == IF f = "2025" THEN 2025 ELSE 2024

\* the date parser: the day a text denotes (as yyyymmdd), or -1 when
\* the text is no date
ParseDate(f) ==
    CASE f = "2024-01-05" -> 20240105
      [] f = "05/01/2024" -> 20240501
      [] f = "2024-02-10" -> 20240210
      [] f = "2024" -> 20240101
      [] f = "2025" -> 20250101
      [] OTHER -> -1

-----------------------------------------------------------------------------
(* pd.read_csv(StringIO(response.text)) *)

\* one parsed column: its name, dtype and cells
ReadColumn(name, fields) ==
    IF \A i \in 1..Len(fields) : fields[i] = ""
    THEN [name |-> name, dtype |-> "float64", cells |-> [i \in 1..Len(fields) |-> NaN]]
    ELSE IF \A i \in 1..Len(fields) : fields[i] = "" \/ IsNumeric(fields[i])
    THEN [name |-> name,
          dtype |-> IF \E i \in 1..Len(fields) : fields[i] = "" THEN "float64" ELSE "int64",
          cells |-> [i \in 1..Len(fields) |->
                       IF fields[i] = "" THEN NaN ELSE Num(ParseNum(fields[i]))]]
    ELSE [name |-> name, dtype |-> "object",
          cells |-> [i \in 1..Len(fields) |->
                       IF fields[i] = "" THEN NaN ELSE Str(fields[i])]]

\* skip_blank_lines: with one column, a line holding an empty field is a blank line
DataLines(content) ==
    IF Len(content.header) = 1
    THEN SelectSeq(content.rows, LAMBDA r : r[1] # "")
    ELSE content.rows

\* read_csv raises EmptyDataError on a text without a header line
ReadCsvRaises(content) == content.header = <<>>

ReadCsv(content) ==
    LET lines == DataLines(content)
    IN  [len |-> Len(lines),
         columns |-> [j \in 1..Len(content.header) |->
                        ReadColumn(content.header[j],
                                   [i \in 1..Len(lines) |-> lines[i][j]])]]

-----------------------------------------------------------------------------
(* Lines 126-147: the normalization of the frame *)

\* df.columns = df.columns.str.strip()
StripColumns(f) ==
    [f EXCEPT !.columns = [j \in 1..Len(f.columns) |->
                             [f.columns[j] EXCEPT !.name = Strip(f.columns[j].name)]]]

\* df.dropna(axis=1, how='all')
DropEmptyColumns(f) ==
    [f EXCEPT !.columns = SelectSeq(f.columns, LAMBDA c : Count(c) > 0)]

\* threshold = len(df) * 0.1; df.dropna(axis=1, thresh=threshold)
DropSparseColumns(f) ==
    [f EXCEPT !.columns =
        SelectSeq(f.columns, LAMBDA c : Count(c) * ThreshDen >= f.len * ThreshNum)]

\* a sample that is the whole column: dropna() without head(10)
SampleValues_NoHead(col) == SelectSeq(col.cells, LAMBDA c : ~IsNa(c))

\* df[col].dropna().head(10)
SampleValues(col) ==
    LET present == SelectSeq(col.cells, LAMBDA c : ~IsNa(c))
    IN  SubSeq(present, 1, IF Len(present) < SampleSize THEN Len(present) ELSE SampleSize)

\* to_datetime of one cell: the parsed day, or "fail"
ToDatetime(c) ==
    IF IsNa(c) THEN NaT
    ELSE IF c.t = "str"
         THEN IF ParseDate(c.s) = -1 THEN [t |-> "fail", s |-> "", n |-> 0]
              ELSE Timestamp(ParseDate(c.s))
    ELSE c

\* a sample test that passes as soon as one value parses
SampleParses_Any(smp) == \E i \in 1..Len(smp) : ToDatetime(smp[i]).t # "fail"

\* pd.to_datetime(sample_values, errors='raise') returns without raising
SampleParses(smp) == \A i \in 1..Len(smp) : ToDatetime(smp[i]).t # "fail"

\* a conversion of the column followed by its sample: the column grows
CoerceColumn_Concat(col) ==
    [col EXCEPT !.dtype = "datetime64[ns]",
                !.cells = [i \in 1..Len(col.cells) |->
                             IF ToDatetime(col.cells[i]).t = "fail" THEN NaT
                             ELSE ToDatetime(col.cells[i])]
                          \o [i \in 1..Len(SampleValues(col)) |->
                                ToDatetime(SampleValues(col)[i])]]

\* a conversion with errors='ignore': a cell that fails to parse is kept
CoerceColumn_Ignore(col) ==
    [col EXCEPT !.dtype = "datetime64[ns]",
                !.cells = [i \in 1..Len(col.cells) |->
                             IF ToDatetime(col.cells[i]).t = "fail" THEN col.cells[i]
                             ELSE ToDatetime(col.cells[i])]]

\* pd.to_datetime(df[col], errors='coerce')
CoerceColumn(col) ==
    [col EXCEPT !.dtype = "datetime64[ns]",
                !.cells = [i \in 1..Len(col.cells) |->
                             IF ToDatetime(col.cells[i]).t = "fail" THEN NaT
                             ELSE ToDatetime(col.cells[i])]]

\* the test of lines 139-143: the column is converted and tagged
IsDateColumn(col) ==
    /\ col.dtype = "object"
    /\ Len(SampleValues(col)) > 0
    /\ SampleParses(SampleValues(col))

\* df[col] is a DataFrame when the name col occurs twice: df[col].dtype raises
DateLoopRaises(f) ==
    \E i, j \in 1..Len(f.columns) : i # j /\ f.columns[i].name = f.columns[j].name

\* lines 137-147: the frame and date_columns after the loop
ProcessDates(f) ==
    [df |-> [f EXCEPT !.columns = [j \in 1..Len(f.columns) |->
                        IF IsDateColumn(f.columns[j]) THEN CoerceColumn(f.columns[j])
                        ELSE f.columns[j]]],
     date_columns |-> LET tagged == SelectSeq(f.columns, IsDateColumn)
                      IN  [j \in 1..Len(tagged) |-> tagged[j].name]]

\* lines 126-134
DropColumns(f) == DropSparseColumns(DropEmptyColumns(StripColumns(f)))

\* lines 126-147 on a frame: the frame it leaves
Sanitize(f) == ProcessDates(DropColumns(f)).df

\* line 150
ClientColumns(f) ==
    LET hit == SelectSeq(f.columns, LAMBDA c : HasClientOrProfile(Lower(c.name)))
    IN  [j \in 1..Len(hit) |-> hit[j].name]

\* a list of reservation columns that leaves the client columns in
ReservationColumns_All(f, cc) == [j \in 1..Len(f.columns) |-> f.columns[j].name]

\* line 151
ReservationColumns(f, cc) ==
    LET rest == SelectSeq(f.columns, LAMBDA c : c.name \notin Range(cc))
    IN  [j \in 1..Len(rest) |-> rest[j].name]

\* line 156: the value returned from the except branch
Failure(msg) ==
    [df |-> NoneDF, date_columns |-> <<>>, client_columns |-> <<>>,
     reservation_columns |-> <<>>, error |-> ErrStr(msg)]

\* line 153: the value returned for a frame after the date loop
Success(f, dc) ==
    [df |-> f, date_columns |-> dc, client_columns |-> ClientColumns(f),
     reservation_columns |-> ReservationColumns(f, ClientColumns(f)),
     error |-> NoneErr]

\* lines 124-156 for a response text that arrived
ParseAndProcess(content) ==
    IF ReadCsvRaises(content) THEN Failure("No columns to parse from file")
    ELSE IF DateLoopRaises(DropColumns(ReadCsv(content)))
         THEN Failure("'DataFrame' object has no attribute 'dtype'")
    ELSE LET r == ProcessDates(DropColumns(ReadCsv(content)))
         IN  Success(r.df, r.date_columns)

-----------------------------------------------------------------------------
(* The CSV texts the URL may serve *)

\* the fields a column of the source may hold, by the column's name
Domain(name) ==
    CASE name = " Client Since" -> {"", "2024-01-05", "Acme"}
      [] name = "Year " -> {"", "2024"}
      [] name = "Client Date" -> {"", "2024-01-05", "2024-02-10"}
      [] name = "Unit" -> {"A1"}
      [] name = " Date" -> {"2024-01-05"}
      [] name = "Date " -> {"2024-01-05"}
      [] OTHER -> {""}

\* the lines a source with this header may hold
RowsOf(header) ==
    {r \in [1..Len(header) -> UNION {Domain(header[j]) : j \in 1..Len(header)}] :
        \A j \in 1..Len(header) : r[j] \in Domain(header[j])}

RECURSIVE Expand(_)
\* the lines of a sequence of blocks, a block being len copies of one line
Expand(blocks) ==
    IF blocks = <<>> THEN <<>>
    ELSE Rep(blocks[1].row, blocks[1].len) \o Expand(Tail(blocks))

\* the sources with this header made of at most maxBlocks blocks, followed by
\* one of the given tails
Sources(header, lens, maxBlocks, tails) ==
    {[header |-> header, rows |-> Expand(bs) \o tl] :
        bs \in UNION {[1..k -> [len : lens, row : RowsOf(header)]] : k \in 0..maxBlocks},
        tl \in tails}

\* block lengths of the load specification: one line and a full sample
BlockLens == {1, SampleSize}

\* tails of the load specification: none, or enough equal lines to bring a
\* column holding one sample near the threshold
Paddings(header) ==
    {<<>>} \cup {Rep(r, (ThreshDen - 1) * SampleSize) : r \in RowsOf(header)}

LoadHeader == <<" Client Since", "Year ">>

LoadSources == Sources(LoadHeader, BlockLens, MaxBlocks, Paddings(LoadHeader))

NoCache == [full |-> FALSE, val |-> Failure(""), age |-> 0, src |-> <<>>]

-----------------------------------------------------------------------------
(* The load specification: load_and_process_data, statement by statement,  *)
(* on a response that arrived, followed by a second pass of lines 126-147  *)
(* over the frame it returned.                                             *)

InitLoad ==
    /\ source \in LoadSources
    /\ cache = NoCache
    /\ pc = "read_csv"
    /\ df = NoneDF
    /\ date_columns = <<>>
    /\ client_columns = <<>>
    /\ reservation_columns = <<>>
    /\ error = NoneErr
    /\ raw = NoneDF
    /\ pre = NoneDF
    /\ again = NoneDF
    /\ ui = <<>>
    /\ fetched = 0
    /\ widgets = [button |-> "none", date_col |-> "", range |-> <<>>, profiles |-> {}]

\* line 124
ReadCsvStep ==
    /\ pc = "read_csv"
    /\ ~ReadCsvRaises(source)
    /\ raw' = ReadCsv(source)
    /\ df' = raw'
    /\ pc' = "strip"
    /\ UNCHANGED <<source, cache, date_columns, client_columns, reservation_columns,
                   error, pre, again, ui, fetched, widgets>>

\* line 127
StripStep ==
    /\ pc = "strip"
    /\ df' = StripColumns(df)
    /\ pc' = "drop"
    /\ UNCHANGED <<source, cache, date_columns, client_columns, reservation_columns,
                   error, raw, pre, again, ui, fetched, widgets>>

\* lines 130-134
DropStep ==
    /\ pc = "drop"
    /\ df' = DropSparseColumns(DropEmptyColumns(df))
    /\ pre' = df'
    /\ pc' = "dates"
    /\ UNCHANGED <<source, cache, date_columns, client_columns, reservation_columns,
                   error, raw, again, ui, fetched, widgets>>

\* lines 137-147
DatesStep ==
    /\ pc = "dates"
    /\ ~DateLoopRaises(df)
    /\ LET r == ProcessDates(df)
       IN  /\ df' = r.df
           /\ date_columns' = r.date_columns
    /\ pc' = "classify"
    /\ UNCHANGED <<source, cache, client_columns, reservation_columns,
                   error, raw, pre, again, ui, fetched, widgets>>

\* lines 150-153
ReturnStep ==
    /\ pc = "classify"
    /\ client_columns' = ClientColumns(df)
    /\ reservation_columns' = ReservationColumns(df, client_columns')
    /\ error' = NoneErr
    /\ pc' = "returned"
    /\ UNCHANGED <<source, cache, df, date_columns, raw, pre, again, ui, fetched, widgets>>

\* lines 126-147 once more, on the returned frame
AgainStep ==
    /\ pc = "returned"
    /\ ~DateLoopRaises(DropColumns(df))
    /\ again' = Sanitize(df)
    /\ pc' = "resanitized"
    /\ UNCHANGED <<source, cache, df, date_columns, client_columns, reservation_columns,
                   error, raw, pre, ui, fetched, widgets>>

NextLoad ==
    \/ ReadCsvStep
    \/ StripStep
    \/ DropStep
    \/ DatesStep
    \/ ReturnStep
    \/ AgainStep

SpecLoad == InitLoad /\ [][NextLoad]_vars

-----------------------------------------------------------------------------
(* The session specification: runs of the page script (main), the cache    *)
(* around load_and_process_data, the clock and the publisher of the source *)

\* the texts the URL may serve during a session
SessionSources ==
    Sources(<<"Client Date", "Unit">>, {1}, MaxSessionRows, {<<>>})
    \cup Sources(<<"Date ", "Unit">>, {1}, MaxSessionRows, {<<>>})
    \cup Sources(<<" Date", "Date ">>, {1}, MaxSessionRows, {<<>>})
    \cup {[header |-> <<>>, rows |-> <<>>]}

\* requests.get / raise_for_status raising: timeout, transport error, HTTP status
FetchFailures ==
    {[exc |-> "Timeout", msg |-> "Read timed out. (read timeout=30)"],
     [exc |-> "ConnectionError", msg |-> "Max retries exceeded with url"],
     [exc |-> "HTTPError", msg |-> "404 Client Error: Not Found for url"]}

\* an exception whose str() is empty, raised while the text is parsed
ParseFailures == {[exc |-> "MemoryError", msg |-> ""]}

\* the buttons whose press starts a run
Buttons == {"refresh", "refresh_all", "clean", "report", "export"}

\* seconds the clock advances in one step
TickSec == 150

Init ==
    /\ source \in SessionSources
    /\ cache = NoCache
    /\ pc = "idle"
    /\ df = NoneDF
    /\ date_columns = <<>>
    /\ client_columns = <<>>
    /\ reservation_columns = <<>>
    /\ error = NoneErr
    /\ raw = NoneDF
    /\ pre = NoneDF
    /\ again = NoneDF
    /\ ui = <<>>
    /\ fetched = 0
    /\ widgets = [button |-> "none", date_col |-> "", range |-> <<>>, profiles |-> {}]

\* something the run puts on the page
Show(kind, text) == Append(ui, [kind |-> kind, text |-> text])

\* the page shows the grid and the tabs, so its buttons can be pressed
ButtonsShown == \E i \in 1..Len(ui) : ui[i].kind = "grid"

\* a cache whose entries never expire
CacheValid_NoTtl == cache.full

\* the entry of the cache can be served: it exists and is younger than ttl
CacheValid == cache.full /\ cache.age < TTL

NoWidgets == [button |-> "none", date_col |-> "", range |-> <<>>, profiles |-> {}]

\* the script run is over (st.stop(), st.rerun() or the end of main): the
\* locals of main are gone, the page stays as it is
LocalsGone ==
    /\ df' = NoneDF
    /\ date_columns' = <<>>
    /\ client_columns' = <<>>
    /\ reservation_columns' = <<>>
    /\ error' = NoneErr

\* the user interacts with the page (or opens it): the script runs from the
\* top; the page of the previous run stays until the load has returned
StartRun ==
    /\ pc = "idle"
    /\ \E b \in Buttons \cup {"none"} :
          /\ b # "none" => ButtonsShown
          /\ widgets' = [NoWidgets EXCEPT !.button = b]
    /\ pc' = "load"
    /\ fetched' = 0
    /\ UNCHANGED <<source, cache, df, date_columns, client_columns,
                   reservation_columns, error, raw, pre, again, ui>>

\* line 280 when the cache holds a valid entry: the stored return value is
\* handed out and the function body does not run
LoadCached ==
    /\ pc = "load"
    /\ CacheValid
    /\ df' = cache.val.df
    /\ date_columns' = cache.val.date_columns
    /\ client_columns' = cache.val.client_columns
    /\ reservation_columns' = cache.val.reservation_columns
    /\ error' = cache.val.error
    /\ ui' = <<>>
    /\ pc' = "check"
    /\ UNCHANGED <<source, cache, raw, pre, again, fetched, widgets>>

\* the run of the function body (lines 117-156) for each way the fetch and
\* the parse can end
LoadResults ==
    {ParseAndProcess(source)}
    \cup {Failure(x.msg) : x \in FetchFailures \cup ParseFailures}

\* line 280 when the cache holds no valid entry: the function body runs with
\* one requests.get, and whatever it returns is stored in the cache
LoadFetch ==
    /\ pc = "load"
    /\ ~CacheValid
    /\ \E r \in LoadResults :
          /\ cache' = [full |-> TRUE, val |-> r, age |-> 0, src |-> source]
          /\ df' = r.df
          /\ date_columns' = r.date_columns
          /\ client_columns' = r.client_columns
          /\ reservation_columns' = r.reservation_columns
          /\ error' = r.error
    /\ fetched' = fetched + 1
    /\ ui' = <<>>
    /\ pc' = "check"
    /\ UNCHANGED <<source, raw, pre, again, widgets>>

\* Python's truth value of error: None and the empty string are both false
Truthy(e) == ~e.none /\ e.msg # ""

\* df.empty
Empty(f) == f.len = 0 \/ Len(f.columns) = 0

\* lines 282-284
ReportError ==
    /\ pc = "check"
    /\ Truthy(error)
    /\ ui' = Show("error", error.msg)
    /\ pc' = "idle"
    /\ LocalsGone
    /\ widgets' = NoWidgets
    /\ UNCHANGED <<source, cache, raw, pre, again, fetched>>

\* lines 286-288
ReportNoData ==
    /\ pc = "check"
    /\ ~Truthy(error)
    /\ df = NoneDF \/ Empty(df)
    /\ ui' = Show("warning", "No reservation data available")
    /\ pc' = "idle"
    /\ LocalsGone
    /\ widgets' = NoWidgets
    /\ UNCHANGED <<source, cache, raw, pre, again, fetched>>

\* lines 290-301
ShowOverview ==
    /\ pc = "check"
    /\ ~Truthy(error)
    /\ ~(df = NoneDF \/ Empty(df))
    /\ ui' = Show("metrics", "Data Overview")
    /\ pc' = "date_filter"
    /\ UNCHANGED <<source, cache, df, date_columns, client_columns,
                   reservation_columns, error, raw, pre, again, fetched, widgets>>

\* df[name]
Column(f, name) == CHOOSE c \in Range(f.columns) : c.name = name

\* df[mask]: the rows at the positions in keep, in order
TakeRows(f, keep) ==
    LET idx == SelectSeq([i \in 1..f.len |-> i], LAMBDA i : i \in keep)
    IN  [len |-> Len(idx),
         columns |-> [j \in 1..Len(f.columns) |->
                        [f.columns[j] EXCEPT !.cells =
                            [k \in 1..Len(idx) |-> f.columns[j].cells[idx[k]]]]]]

\* the dates of a column, missing cells left out
ValidDates(col) == {col.cells[i].n : i \in {k \in 1..Len(col.cells) : ~IsNa(col.cells[k])}}

\* line 324: a comparison with NaT is False
InRange(c, lo, hi) == ~IsNa(c) /\ c.n >= lo /\ c.n <= hi

\* lines 307-325: the date range filter of the sidebar; date_input hands
\* back one date while the user is choosing, two once the range is set
DateFilter ==
    /\ pc = "date_filter"
    /\ IF date_columns # <<>>
       THEN \E name \in Range(date_columns) :
              LET dates == ValidDates(Column(df, name))
              IN  IF dates # {}
                  THEN \E rng \in {<<d>> : d \in dates}
                                  \cup {<<lo, hi>> : lo \in dates, hi \in dates} :
                         /\ Len(rng) = 2 => rng[1] <= rng[2]
                         /\ widgets' = [widgets EXCEPT !.date_col = name, !.range = rng]
                         /\ df' = IF Len(rng) = 2
                                  THEN TakeRows(df, {i \in 1..df.len :
                                         InRange(Column(df, name).cells[i], rng[1], rng[2])})
                                  ELSE df
                  ELSE /\ widgets' = [widgets EXCEPT !.date_col = name]
                       /\ UNCHANGED df
       ELSE UNCHANGED <<df, widgets>>
    /\ pc' = "client_filter"
    /\ UNCHANGED <<source, cache, date_columns, client_columns,
                   reservation_columns, error, raw, pre, again, ui, fetched>>

\* lines 328-337: the client profile filter of the sidebar
ClientFilter ==
    /\ pc = "client_filter"
    /\ IF client_columns # <<>>
       THEN LET col == Column(df, client_columns[1])
                profiles == {col.cells[i] : i \in {k \in 1..Len(col.cells) : ~IsNa(col.cells[k])}}
            IN  \E sel \in SUBSET profiles :
                  /\ widgets' = [widgets EXCEPT !.profiles = sel]
                  /\ df' = IF sel # {}
                           THEN TakeRows(df, {i \in 1..df.len : col.cells[i] \in sel})
                           ELSE df
       ELSE UNCHANGED <<df, widgets>>
    /\ pc' = "grid"
    /\ UNCHANGED <<source, cache, date_columns, client_columns,
                   reservation_columns, error, raw, pre, again, ui, fetched>>

\* st.rerun() with no st.cache_data.clear() before it
RerunOnly ==
    /\ UNCHANGED cache
    /\ pc' = "load"
    /\ fetched' = 0
    /\ LocalsGone
    /\ widgets' = NoWidgets
    /\ UNCHANGED ui

\* st.cache_data.clear(); st.rerun(): the run ends and the script starts over
ClearAndRerun ==
    /\ cache' = NoCache
    /\ pc' = "load"
    /\ fetched' = 0
    /\ LocalsGone
    /\ widgets' = NoWidgets
    /\ UNCHANGED ui

\* lines 340-470: tabs 1 and 2 with the grid; lines 435-437 when "Refresh
\* Data" was pressed
ShowGrid ==
    /\ pc = "grid"
    /\ IF widgets.button = "refresh"
       THEN ClearAndRerun
       ELSE /\ ui' = Show("grid", "Reservations Data Grid")
            /\ pc' = "actions"
            /\ UNCHANGED <<cache, fetched, widgets, df, date_columns, client_columns,
                           reservation_columns, error>>
    /\ UNCHANGED <<source, raw, pre, again>>

\* two digits of a date or a time
Pad2(k) == IF k < 10 THEN "0" \o ToString(k) ELSE ToString(k)

\* str() of a Timestamp at midnight
StrOfDate(d) ==
    ToString(d \div 10000) \o "-" \o Pad2((d \div 100) % 100) \o "-" \o Pad2(d % 100)
    \o " 00:00:00"

\* line 638, df[col].min(): NaT when the column holds no date
MinText(col) ==
    LET dates == ValidDates(col)
    IN  IF dates = {} THEN "NaT"
        ELSE StrOfDate(CHOOSE d \in dates : \A e \in dates : d <= e)

\* line 638, df[col].max()
MaxText(col) ==
    LET dates == ValidDates(col)
    IN  IF dates = {} THEN "NaT"
        ELSE StrOfDate(CHOOSE d \in dates : \A e \in dates : d >= e)

\* line 638: date_columns[0] of the first replacement field is evaluated
\* whatever date_columns holds, and raises IndexError on the empty list
ReportRaises(dc) == dc = <<>>

\* line 638: the date range of the report
DateRangeText(f, dc) ==
    MinText(Column(f, dc[1])) \o " to "
    \o (IF dc # <<>> THEN MaxText(Column(f, dc[1])) ELSE "N/A")

\* line 639: the number of client profiles of the report
ClientsText(f, cc) ==
    IF cc # <<>>
    THEN ToString(Cardinality({c \in Range(Column(f, cc[1]).cells) : ~IsNa(c)}))
    ELSE "N/A"

\* line 640: the share of cells that hold a value, as a percentage with one
\* decimal; a table of no cells gives nan
QualityText(f) ==
    LET all == f.len * Len(f.columns)
        missing == Len(f.columns) * f.len
                   - Cardinality({<<j, i>> \in (1..Len(f.columns)) \X (1..f.len) :
                                     ~IsNa(f.columns[j].cells[i])})
        tenths == IF all = 0 THEN 0 ELSE (2000 * (all - missing) + all) \div (2 * all)
    IN  IF all = 0 THEN "nan%"
        ELSE ToString(tenths \div 10) \o "." \o ToString(tenths % 10) \o "%"

\* lines 636-640: the summary of the report
ReportText(total, range, clients, quality) ==
    "SUMMARY: - Total Reservations: " \o total
    \o " - Date Range: " \o range
    \o " - Client Profiles: " \o clients
    \o " - Data Quality: " \o quality

\* lines 632-641
Report(f, dc, cc) ==
    ReportText(ToString(f.len), DateRangeText(f, dc), ClientsText(f, cc), QualityText(f))

\* lines 472-714: tabs 3 to 5; the pressed button of tab 5 acts
ShowActions ==
    /\ pc = "actions"
    /\ IF widgets.button = "refresh_all"
       THEN ClearAndRerun
       ELSE /\ ui' = CASE widgets.button = "clean" -> Show("success", "Removed rows")
                       [] widgets.button = "report" ->
                            IF ReportRaises(date_columns)
                            THEN Show("exception", "IndexError: list index out of range")
                            ELSE Show("download", Report(df, date_columns, client_columns))
                       [] widgets.button = "export" -> Show("download", "Download CSV")
                       [] OTHER -> Show("status", "System Status")
            /\ pc' = "idle"
            /\ LocalsGone
            /\ widgets' = NoWidgets
            /\ UNCHANGED <<cache, fetched>>
    /\ UNCHANGED <<source, raw, pre, again>>

\* time passes; an entry of age ttl or more is expired whatever its age
Tick ==
    /\ pc = "idle"
    /\ cache.full
    /\ cache.age < TTL
    /\ cache' = [cache EXCEPT !.age = IF cache.age + TickSec > TTL THEN TTL
                                       ELSE cache.age + TickSec]
    /\ UNCHANGED <<source, pc, df, date_columns, client_columns, reservation_columns,
                   error, raw, pre, again, ui, fetched, widgets>>

\* the publisher replaces the text behind the URL
SourceChanges ==
    /\ pc = "idle"
    /\ \E c \in SessionSources : c # source /\ source' = c
    /\ UNCHANGED <<cache, pc, df, date_columns, client_columns, reservation_columns,
                   error, raw, pre, again, ui, fetched, widgets>>

Next ==
    \/ StartRun
    \/ LoadCached
    \/ LoadFetch
    \/ ReportError
    \/ ReportNoData
    \/ ShowOverview
    \/ DateFilter
    \/ ClientFilter
    \/ ShowGrid
    \/ ShowActions
    \/ Tick
    \/ SourceChanges

Spec == Init /\ [][Next]_vars

-----------------------------------------------------------------------------
(* Notions the claims are stated in *)

\* the load has returned its frame
Returned == pc \in {"returned", "resanitized"}

\* the load has just returned: df and date_columns are the returned ones, pre
\* is the frame as it stood before the date loop
AfterDates == pc = "returned"

\* a value the date parser accepts; to_datetime reads a number as a count of
\* nanoseconds since the epoch, so every number is accepted
ValueParses(c) == IF c.t = "str" THEN ParseDate(c.s) # -1 ELSE ~IsNa(c)

\* the sample of a column: its first 10 non-missing cells, in row order
FirstPresent(col) ==
    LET present == SelectSeq(col.cells, LAMBDA c : ~IsNa(c))
    IN  {present[i] : i \in 1..(IF Len(present) > SampleSize THEN SampleSize
                                 ELSE Len(present))}

\* the sample of a column is non-empty and every value of it parses
SampleAllParse(col) ==
    /\ FirstPresent(col) # {}
    /\ \A c \in FirstPresent(col) : ValueParses(c)

\* row i of a frame holds no value
EmptyRow(f, i) == \A j \in 1..Len(f.columns) : IsNa(f.columns[j].cells[i])

-----------------------------------------------------------------------------
(* C1 - C6: the load, under SpecLoad *)

\* C1: normalizing the returned frame once more (lines 126-147) leaves it as
\* it is: the same columns and the same cells.
C1_Idempotent == pc = "resanitized" => again = df

\* C2: a retained column whose sample (its first 10 non-missing values) is
\* empty or holds a value that does not parse as a date is not in
\* date_columns and keeps its cells as they were read.
C2_BadSampleNotDate ==
    AfterDates =>
        \A j \in 1..Len(pre.columns) :
            ~SampleAllParse(pre.columns[j]) =>
                /\ pre.columns[j].name \notin Range(date_columns)
                /\ df.columns[j] = pre.columns[j]

\* C2 witness: a text column with a date and a non-date in its sample was left alone
C2_Witness ==
    /\ AfterDates
    /\ \E j \in 1..Len(pre.columns) :
          /\ \E c \in FirstPresent(pre.columns[j]) : ValueParses(c)
          /\ \E c \in FirstPresent(pre.columns[j]) : ~ValueParses(c)
          /\ df.columns[j] = pre.columns[j]

\* C3 as claimed: every retained column whose sample is non-empty and parses
\* throughout is in date_columns, a column of numbers included.
C3_GoodSampleIsDate ==
    AfterDates =>
        \A j \in 1..Len(pre.columns) :
            SampleAllParse(pre.columns[j]) =>
                pre.columns[j].name \in Range(date_columns)

\* C3 amended: every retained column of dtype object whose sample is
\* non-empty and parses throughout is in date_columns and is converted; a
\* column that read_csv typed as numbers is never tested.
C3_GoodTextSampleIsDate ==
    AfterDates =>
        \A j \in 1..Len(pre.columns) :
            /\ (pre.columns[j].dtype = "object" /\ SampleAllParse(pre.columns[j])) =>
                  /\ pre.columns[j].name \in Range(date_columns)
                  /\ df.columns[j].dtype = "datetime64[ns]"
            /\ pre.columns[j].dtype # "object" =>
                  /\ pre.columns[j].name \notin Range(date_columns)
                  /\ df.columns[j] = pre.columns[j]

\* C3 witness: a text column tagged on its sample although a later cell is no
\* date, next to a column of years that is not tagged
C3_Witness ==
    /\ AfterDates
    /\ \E j \in 1..Len(pre.columns) :
          /\ pre.columns[j].dtype = "object"
          /\ \E i \in 1..pre.len : ~IsNa(pre.columns[j].cells[i])
                                      /\ ~ValueParses(pre.columns[j].cells[i])
          /\ pre.columns[j].name \in Range(date_columns)
    /\ \E j \in 1..Len(pre.columns) :
          /\ pre.columns[j].dtype = "int64"
          /\ pre.columns[j].name \notin Range(date_columns)

\* C4: every column of the returned frame has values in at least 10% of the
\* rows, counted on the returned frame.
C4_ReturnedColumnsDense ==
    Returned =>
        \A j \in 1..Len(df.columns) :
            Count(df.columns[j]) * ThreshDen >= df.len * ThreshNum

\* C5: the conversion of a column tagged date does not fail the load; a cell
\* that does not parse becomes NaT, a cell that parses becomes its date, the
\* row count stays, and the other columns keep their cells.
C5_CoerceCellwise ==
    AfterDates =>
        /\ error = NoneErr
        /\ df.len = pre.len
        /\ Len(df.columns) = Len(pre.columns)
        /\ \A j \in 1..Len(pre.columns) :
              IF pre.columns[j].name \in Range(date_columns)
              THEN /\ Len(df.columns[j].cells) = pre.len
                   /\ \A i \in 1..pre.len :
                         LET c == pre.columns[j].cells[i]
                         IN  df.columns[j].cells[i] =
                               IF c.t = "str" /\ ParseDate(c.s) # -1
                               THEN Timestamp(ParseDate(c.s)) ELSE NaT
              ELSE df.columns[j] = pre.columns[j]

\* C5 witness: a converted column with a parsed cell and a failed cell, next
\* to a column that was not converted
C5_Witness ==
    /\ AfterDates
    /\ \E j, k \in 1..Len(pre.columns) :
          /\ pre.columns[j].name \in Range(date_columns)
          /\ pre.columns[k].name \notin Range(date_columns)
          /\ \E i \in 1..pre.len :
                /\ pre.columns[j].cells[i].t = "str"
                /\ df.columns[j].cells[i] = NaT
          /\ \E i \in 1..pre.len : df.columns[j].cells[i].t = "Timestamp"

\* C6: the returned frame holds no row whose every cell is missing.
C6_NoEmptyRow ==
    (Returned /\ Len(df.columns) > 0) =>
        \A i \in 1..df.len : ~EmptyRow(df, i)

-----------------------------------------------------------------------------
(* C7 - C10: the page, under Spec *)

\* main holds the values the load returned
InRun == pc \in {"check", "date_filter", "client_filter", "grid", "actions"}

\* the three lists of main
Tags == <<date_columns, client_columns, reservation_columns>>

\* the page shows exactly the error message of a failed load
ShowsError(msg) == ui = <<[kind |-> "error", text |-> msg]>>

\* C7 as claimed: no column of the returned table is both in date_columns and
\* in client_columns, and no step of the run after the load changes the lists.
C7_OneTagPerColumn ==
    /\ [](InRun => Range(date_columns) \cap Range(client_columns) = {})
    /\ [][(InRun /\ InRun') => Tags' = Tags]_vars

\* C7 amended: every column of the returned table is in exactly one of
\* client_columns and reservation_columns; date_columns is a third list of
\* columns of the table, computed apart, which may share a column with
\* client_columns; no step of the run after the load changes the lists.
C7_ClientOrReservation ==
    /\ [](InRun /\ df # NoneDF =>
            /\ \A j \in 1..Len(df.columns) :
                  df.columns[j].name \in Range(client_columns)
                     <=> df.columns[j].name \notin Range(reservation_columns)
            /\ Range(client_columns) \cup Range(reservation_columns) \cup Range(date_columns)
                  \subseteq {df.columns[j].name : j \in 1..Len(df.columns)}
            /\ \A j \in 1..Len(df.columns) :
                  df.columns[j].name \in Range(client_columns)
                     <=> HasClientOrProfile(Lower(df.columns[j].name)))
    /\ [][(InRun /\ InRun') => Tags' = Tags]_vars

\* C7 witness: past the filters, a column is in date_columns and in client_columns
C7_Witness ==
    /\ pc = "actions"
    /\ df.len > 0
    /\ Range(date_columns) \cap Range(client_columns) # {}
    /\ reservation_columns # <<>>

\* C8: when the load has raised (it returned no table and an error value),
\* main shows that error with its message and stops before anything else is
\* put on the page, whatever the message.
C8_FailureReported ==
    [][(pc = "check" /\ ~error.none) =>
          (pc' = "idle" /\ ui' = <<[kind |-> "error", text |-> error.msg]>>)]_vars

\* C9: a run started while the page shows the error of a failed fetch makes a
\* new fetch, and no run fetches more than once.
C9_FailureRetried ==
    /\ [][(pc = "load" /\ pc' = "check" /\ \E x \in FetchFailures : ShowsError(x.msg))
            => fetched' = fetched + 1]_vars
    /\ [](fetched <= 1)

\* C10 as claimed: the table a run uses is the one derived from the text the
\* source holds at the time of the run.
C10_TableOfCurrentSource ==
    (pc = "check" /\ error.none) =>
        /\ df = ParseAndProcess(source).df
        /\ Tags = <<ParseAndProcess(source).date_columns,
                    ParseAndProcess(source).client_columns,
                    ParseAndProcess(source).reservation_columns>>

\* C10 amended: the cache has a single entry, keyed by the function alone and
\* kept for less than 300 seconds; the table a run uses is the one derived
\* from the text the source held when that entry was fetched, which is the
\* current text when the run fetched it itself.
C10_TableOfFetchedSource ==
    (pc = "check" /\ error.none) =>
        /\ cache.full
        /\ cache.age < TTL
        /\ df = ParseAndProcess(cache.src).df
        /\ Tags = <<ParseAndProcess(cache.src).date_columns,
                    ParseAndProcess(cache.src).client_columns,
                    ParseAndProcess(cache.src).reservation_columns>>
        /\ fetched = 1 => (cache.src = source /\ cache.age = 0)

\* C10 witness: a run is served, without a fetch, a table that the current
\* text of the source does not give
C10_Witness ==
    /\ pc = "check"
    /\ error.none
    /\ fetched = 0
    /\ cache.src # source
    /\ cache.age > 0
    /\ df # ParseAndProcess(source).df
    /\ df.len > 0

-----------------------------------------------------------------------------
(* C11: the load, under SpecLoad *)

\* C11: from the moment the source is parsed, the frame of the load never
\* has more rows than read_csv gave it, and no column of it has more cells:
\* stripping the names, dropping columns and converting dates add no row.
C11_NoRowAdded ==
    raw # NoneDF =>
        /\ raw.len <= Len(source.rows)
        /\ df.len <= raw.len
        /\ \A j \in 1..Len(df.columns) : Len(df.columns[j].cells) <= raw.len

\* C11 witness: a returned frame with rows, from which a column was dropped
\* and in which a column was converted
C11_Witness ==
    /\ pc = "returned"
    /\ raw.len > 0
    /\ df.len = raw.len
    /\ Len(df.columns) < Len(raw.columns)
    /\ date_columns # <<>>

-----------------------------------------------------------------------------
(* C12: the cache and the refresh buttons, under Spec *)

\* the handler of "Refresh Data" (lines 435-437) or of "Refresh All Data"
\* (lines 620-623) is about to run
RefreshPressed ==
    \/ pc = "grid" /\ widgets.button = "refresh"
    \/ pc = "actions" /\ widgets.button = "refresh_all"

\* the tabs with the refresh buttons are reached only in a run whose load
\* returned a non-empty table and no error
RefreshGated ==
    pc \in {"grid", "actions"} =>
        /\ cache.full
        /\ cache.val.error.none
        /\ error.none
        /\ cache.val.df # NoneDF
        /\ cache.val.df.len > 0
        /\ Len(cache.val.df.columns) > 0

\* what a step of the session does to the cache
RefreshStep ==
    /\ RefreshPressed => pc' = "load" /\ ~cache'.full /\ fetched' = 0
    /\ (pc = "load" /\ ~cache.full) =>
          /\ fetched' = fetched + 1
          /\ cache'.full /\ cache'.age = 0 /\ cache'.src = source
          /\ <<df', date_columns', client_columns', reservation_columns', error'>>
               = <<cache'.val.df, cache'.val.date_columns, cache'.val.client_columns,
                   cache'.val.reservation_columns, cache'.val.error>>
    /\ (pc = "load" /\ cache.full /\ cache.age < TTL) =>
          /\ fetched' = fetched
          /\ cache' = cache
          /\ <<df', date_columns', client_columns', reservation_columns', error'>>
               = <<cache.val.df, cache.val.date_columns, cache.val.client_columns,
                   cache.val.reservation_columns, cache.val.error>>

\* C12: a press of "Refresh Data" or "Refresh All Data" starts a run that
\* finds the cache empty, and a run that finds the cache empty fetches once
\* and stores what it got; a run that finds an entry younger than 300 seconds
\* fetches nothing and works on the stored result; and the refresh buttons
\* are reached only in runs whose load gave a non-empty table and no error.
C12_RefreshFetchesElseCached == []RefreshGated /\ [][RefreshStep]_vars

\* C12 witness: "Refresh All Data" was pressed on a page with the grid: the
\* script starts over with an empty cache
C12_Witness == pc = "load" /\ ~cache.full /\ ButtonsShown

-----------------------------------------------------------------------------
(* C13: the date range filter of the sidebar, under Spec *)

\* the date filter has just run with a range of two ends
RangeApplied == pc = "client_filter" /\ Len(widgets.range) = 2

\* the range is the one date_input starts with: the least and the greatest
\* date of the selected column
DefaultRange ==
    LET dates == ValidDates(Column(cache.val.df, widgets.date_col))
    IN  /\ widgets.range[1] \in dates
        /\ widgets.range[2] \in dates
        /\ \A d \in dates : widgets.range[1] <= d /\ d <= widgets.range[2]

\* C13: after the date filter with a range (start, end), the table is the
\* loaded rows whose date in the selected column is present and lies in
\* [start, end], in their order and with their columns; and under the default
\* range it is the whole loaded table, rows with a missing date included.
C13_RangeKeepsRows ==
    RangeApplied =>
        LET loaded == cache.val.df
            col == Column(loaded, widgets.date_col)
        IN  /\ df = TakeRows(loaded, {i \in 1..loaded.len :
                        /\ col.cells[i].t = "Timestamp"
                        /\ widgets.range[1] <= col.cells[i].n
                        /\ col.cells[i].n <= widgets.range[2]})
            /\ DefaultRange => df = loaded

-----------------------------------------------------------------------------
(* C14: the report of tab 5, under Spec *)

\* the handler of "Generate Report" (lines 630-649) is about to run
ReportPressed == pc = "actions" /\ widgets.button = "report"

\* C14: "Generate Report" always ends with the report offered for download;
\* with no date column the report gives 'N/A' as its date range, and with no
\* client column it gives 'N/A' as its number of client profiles.
C14_ReportBuilt ==
    [][ReportPressed =>
          LET shown == ui'[Len(ui')]
          IN  /\ shown.kind = "download"
              /\ date_columns = <<>> =>
                    shown.text = ReportText(ToString(df.len), "N/A",
                                            ClientsText(df, client_columns), QualityText(df))
              /\ client_columns = <<>> =>
                    shown.text = ReportText(ToString(df.len),
                                            IF date_columns = <<>> THEN "N/A"
                                            ELSE DateRangeText(df, date_columns),
                                            "N/A", QualityText(df))]_vars

====
